---- MODULE Spec2Model ----
(***************************************************************************)
(* Model of the network monitors of SimpleMonitor (Monitors/network.py):  *)
(* MonitorHTTP, MonitorTCP, MonitorHost and MonitorDNS.                   *)
(*                                                                         *)
(* A Python string is a sequence of chunks; a chunk is a TLA+ string that  *)
(* stands for one character (digits, " ", "\n", ",", "-") or for a run of  *)
(* characters the code never looks into ("ping", "bytes from").  The empty *)
(* Python string is <<>>.  None and a key absent from config_options are   *)
(* one-chunk sentinels that no string of the model contains.               *)
(***************************************************************************)
EXTENDS Integers, Sequences, FiniteSets

VARIABLES pyver, platform, config, probe, err, last

vars == <<pyver, platform, config, probe, err, last>>

----------------------------------------------------------------------------
(* Bounds of the model *)

\* longest ping output, in lines
MaxLines == 2
\* longest dig output, in chunks
MaxOut == 3

----------------------------------------------------------------------------
(* Python values and string primitives *)

None == <<"<None>">>
Absent == <<"<absent>">>
EmptyStr == <<>>

\* Python truthiness of a value that is None or a str
Truthy(x) == x # None /\ x # EmptyStr

\* key in config_options
Has(cfg, k) == cfg[k] # Absent

\* config_options.get(k)
Get(cfg, k) == IF Has(cfg, k) THEN cfg[k] ELSE None

Whitespace == {" ", "\n"}

DigitChars == {"0", "1", "2", "3", "4", "5", "6", "7", "8", "9"}

DigitVal(c) ==
    CASE c = "0" -> 0 [] c = "1" -> 1 [] c = "2" -> 2 [] c = "3" -> 3
      [] c = "4" -> 4 [] c = "5" -> 5 [] c = "6" -> 6 [] c = "7" -> 7
      [] c = "8" -> 8 [] c = "9" -> 9

DigitChar(d) ==
    CASE d = 0 -> "0" [] d = 1 -> "1" [] d = 2 -> "2" [] d = 3 -> "3"
      [] d = 4 -> "4" [] d = 5 -> "5" [] d = 6 -> "6" [] d = 7 -> "7"
      [] d = 8 -> "8" [] d = 9 -> "9"

\* str.strip()
RECURSIVE Strip(_)
Strip(s) ==
    IF s = <<>> THEN s
    ELSE IF s[1] \in Whitespace THEN Strip(Tail(s))
    ELSE IF s[Len(s)] \in Whitespace THEN Strip(SubSeq(s, 1, Len(s) - 1))
    ELSE s

RECURSIVE DigitsToNat(_)
DigitsToNat(s) ==
    IF s = <<>> THEN 0
    ELSE 10 * DigitsToNat(SubSeq(s, 1, Len(s) - 1)) + DigitVal(s[Len(s)])

IsDigits(s) == s # <<>> /\ \A i \in 1..Len(s) : s[i] \in DigitChars

\* int(s) returns (it raises ValueError otherwise, and KeyError-like when the key is absent)
IntValid(s) ==
    LET t == Strip(s) IN
    /\ s # Absent
    /\ s # None
    /\ t # <<>>
    /\ IF t[1] = "-" THEN IsDigits(Tail(t)) ELSE IsDigits(t)

\* int(s), for IntValid(s)
IntOf(s) ==
    LET t == Strip(s) IN
    IF t[1] = "-" THEN 0 - DigitsToNat(Tail(t)) ELSE DigitsToNat(t)

\* str(n) for an int n
RECURSIVE NatToStr(_)
NatToStr(n) ==
    IF n < 10 THEN <<DigitChar(n)>>
    ELSE NatToStr(n \div 10) \o <<DigitChar(n % 10)>>

IntToStr(n) == IF n < 0 THEN <<"-">> \o NatToStr(0 - n) ELSE NatToStr(n)

\* s * n for a str s (sequence repetition)
StrRepeat(s, n) ==
    IF s = <<>> THEN <<>>
    ELSE [i \in 1..(Len(s) * n) |-> s[((i - 1) % Len(s)) + 1]]

\* s.split(sep), sep one character
Split(s, sep) ==
    LET P == {i \in 1..Len(s) : s[i] = sep}
        n == Cardinality(P)
        cut(k) == IF k = 0 THEN 0
                  ELSE IF k = n + 1 THEN Len(s) + 1
                  ELSE CHOOSE i \in P : Cardinality({j \in P : j < i}) = k - 1
    IN  [k \in 1..(n + 1) |-> SubSeq(s, cut(k - 1) + 1, cut(k) - 1)]

\* sep.join(parts)
RECURSIVE Join(_, _)
Join(parts, sep) ==
    IF parts = <<>> THEN <<>>
    ELSE IF Len(parts) = 1 THEN parts[1]
    ELSE parts[1] \o sep \o Join(Tail(parts), sep)

\* pat occurs in s (a search for a literal pattern)
Contains(s, pat) ==
    \E i \in 1..(Len(s) - Len(pat) + 1) : SubSeq(s, i, i + Len(pat) - 1) = pat

\* template % arg, arg a str: exactly one "%s" or TypeError
Placeholders(t) == {i \in 1..Len(t) : t[i] = "%s"}

FormatOk(t) == Cardinality(Placeholders(t)) = 1

Format(t, arg) ==
    LET i == CHOOSE j \in Placeholders(t) : TRUE
    IN  SubSeq(t, 1, i - 1) \o arg \o SubSeq(t, i + 1, Len(t))

\* The Result Recorder (Monitor.record_success / record_fail) as a call log
Success(msg) == [fn |-> "record_success", msg |-> msg]
Fail(msg) == [fn |-> "record_fail", msg |-> msg]

NoProbe == [type |-> "none"]

----------------------------------------------------------------------------
(* Regular expressions.  A pattern is a sequence of elements: a literal     *)
(* chunk, or a character-class element that matches one numeric chunk.     *)

IntChunks == {"7", "12"}
NumChunks == IntChunks \cup {"0.4", "0.5", "0.6"}

ReNum == "[\\d.]+"
ReGroupNum == "(?P<ms>[\\d.]+)"
ReGroupInt == "(?P<ms>\\d+)"

ElemMatches(pe, c) ==
    IF pe \in {ReNum, ReGroupNum} THEN c \in NumChunks
    ELSE IF pe = ReGroupInt THEN c \in IntChunks
    ELSE c = pe

\* positions where re.search(pat, s) can match
MatchPositions(pat, s) ==
    {i \in 1..(Len(s) - Len(pat) + 1) :
        \A k \in 1..Len(pat) : ElemMatches(pat[k], s[i + k - 1])}

\* re.search(pat, s) is not None
Search(pat, s) == MatchPositions(pat, s) # {}

HasGroup(pat) == \E k \in 1..Len(pat) : pat[k] \in {ReGroupNum, ReGroupInt}

\* re.search(pat, s).group("ms"): the leftmost match's group
GroupMs(pat, s) ==
    LET P == MatchPositions(pat, s)
        i == CHOOSE j \in P : \A h \in P : j <= h
        k == CHOOSE g \in 1..Len(pat) : pat[g] \in {ReGroupNum, ReGroupInt}
    IN  <<s[i + k - 1]>>

----------------------------------------------------------------------------
(* MonitorHost *)

\* the factor of ping_ms = ping_ttl * 1000
PingMsFactor == 1000

MsgRequired == <<"Required configuration fields missing">>
MsgMissingHost == <<"missing hostname">>
MsgBadPort == <<"missing or invalid port number">>

StartsWith(p, w) == Len(p) >= 1 /\ p[1] = w

IsLinux(plat) == StartsWith(plat, "linux")
IsBSD(plat) == StartsWith(plat, "freebsd") \/ StartsWith(plat, "darwin")
IsWindows(plat) == plat \in {<<"win32">>, <<"cygwin">>}

PosixTimeRegexp == <<"min/avg/max/stddev = ", ReNum, "/", ReGroupNum, "/">>

\* the class attributes of MonitorHost, which an instance reads until __init__ sets them
HostDefaults ==
    [type |-> "host", host |-> EmptyStr, ping_command |-> EmptyStr,
     ping_regexp |-> EmptyStr, time_regexp |-> EmptyStr]

\* the platform dispatch of MonitorHost.__init__; the else branch builds a
\* RuntimeError and drops it
HostPlatformFields(plat, ping_ttl) ==
    LET ping_ms == StrRepeat(ping_ttl, PingMsFactor) IN
    IF IsWindows(plat) THEN
        [HostDefaults EXCEPT
            !.ping_command = <<"ping", " ", "-n", " ", "1", " ", "-w", " ">> \o ping_ms \o <<" ", "%s">>,
            !.ping_regexp = <<"Reply from ">>,
            !.time_regexp = <<"Average = ", ReGroupInt, "ms">>]
    ELSE IF IsBSD(plat) THEN
        [HostDefaults EXCEPT
            !.ping_command = <<"ping", " ", "-c1", " ", "-t">> \o ping_ttl \o <<" ", "%s">>,
            !.ping_regexp = <<"bytes from">>,
            !.time_regexp = PosixTimeRegexp]
    ELSE IF IsLinux(plat) THEN
        [HostDefaults EXCEPT
            !.ping_command = <<"ping", " ", "-c1", " ", "-W">> \o ping_ttl \o <<" ", "%s">>,
            !.ping_regexp = <<"bytes from">>,
            !.time_regexp = PosixTimeRegexp]
    ELSE HostDefaults

\* MonitorHost.__init__: the probe built, or the message of the error raised
MonitorHostInit(cfg, plat) ==
    LET ping_ttl == IF Has(cfg, "ping_ttl") THEN cfg.ping_ttl ELSE <<"5">>
        fields == HostPlatformFields(plat, ping_ttl)
    IN  IF ~Has(cfg, "host") THEN [probe |-> NoProbe, err |-> MsgRequired]
        ELSE IF cfg.host = EmptyStr THEN [probe |-> NoProbe, err |-> MsgMissingHost]
        ELSE [probe |-> [fields EXCEPT !.host = cfg.host], err |-> None]

\* pingtime = 0.0
Float0 == <<"<0.0>">>

\* str(output) of the bytes (Python 3) or str (Python 2) that check_output returns
StrOfOutput(py, output) ==
    IF py = 2 THEN output
    ELSE <<"b'">> \o [i \in 1..Len(output) |-> IF output[i] = "\n" THEN "\\n" ELSE output[i]] \o <<"'">>

\* the for loop of MonitorHost.run_test over the lines
RECURSIVE ScanLines(_, _, _, _)
ScanLines(lines, r, r2, acc) ==
    IF lines = <<>> \/ acc.raised THEN acc
    ELSE LET line == Head(lines) IN
         ScanLines(Tail(lines), r, r2,
            IF Search(r, line) THEN [acc EXCEPT !.success = TRUE]
            ELSE IF Search(r2, line) THEN
                    IF HasGroup(r2) THEN [acc EXCEPT !.pingtime = GroupMs(r2, line)]
                    ELSE [acc EXCEPT !.raised = TRUE]
            ELSE acc)

\* MonitorHost.run_test: the recorder calls made, the value returned ("raised" when
\* an exception leaves run_test) and the argv executed
MonitorHostRunTest(p, py, io) ==
    IF ~FormatOk(p.ping_command) THEN
        [calls |-> <<Fail(<<"TypeError">>)>>, ret |-> "False", argv |-> <<>>]
    ELSE
    LET cmd == Split(Format(p.ping_command, p.host), " ") IN
    IF io.raises THEN [calls |-> <<Fail(io.exc)>>, ret |-> "False", argv |-> cmd]
    ELSE
    LET lines == Split(StrOfOutput(py, io.output), "\n")
        scan == ScanLines(lines, p.ping_regexp, p.time_regexp,
                          [success |-> FALSE, pingtime |-> Float0, raised |-> FALSE])
    IN  IF scan.raised THEN
            [calls |-> <<Fail(<<"IndexError">>)>>, ret |-> "False", argv |-> cmd]
        ELSE IF scan.success THEN
            IF scan.pingtime = Float0 THEN
                [calls |-> <<Success(None)>>, ret |-> "True", argv |-> cmd]
            ELSE IF py = 2 THEN
                [calls |-> <<Success(scan.pingtime \o <<"ms">>)>>, ret |-> "True", argv |-> cmd]
            ELSE [calls |-> <<>>, ret |-> "raised", argv |-> cmd]
        ELSE [calls |-> <<Fail(None)>>, ret |-> "False", argv |-> cmd]

MonitorHostDescribe(p) == <<"checking host ">> \o p.host \o <<" is pingable">>

MonitorHostGetParams(p) == <<p.host>>

----------------------------------------------------------------------------
(* MonitorDNS *)

\* MonitorDNS.__init__: the probe built, or the message of the error raised
MonitorDNSInit(cfg) ==
    IF ~Has(cfg, "record") THEN [probe |-> NoProbe, err |-> MsgRequired]
    ELSE IF cfg.record = EmptyStr THEN [probe |-> NoProbe, err |-> MsgRequired]
    ELSE
    LET server == Get(cfg, "server")
        command == <<"dig">>
        p1 == <<command>>
        p2 == IF Truthy(server) THEN Append(p1, <<"@">> \o server) ELSE p1
        p3 == IF Has(cfg, "record_type")
                THEN Append(Append(p2, <<"-t">>), cfg.record_type)
                ELSE p2
        p4 == Append(Append(p3, cfg.record), <<"+short">>)
    IN  [probe |-> [type |-> "dns", command |-> command, path |-> cfg.record,
                    desired_val |-> Get(cfg, "desired_val"), server |-> server,
                    params |-> p4, rectype |-> Get(cfg, "record_type")],
         err |-> None]

\* a mutation of DesiredMismatch: desired_val is compared whenever it is not None
DesiredMismatchNotNone(p, result) == p.desired_val # None /\ result # p.desired_val

\* self.desired_val and result != self.desired_val
DesiredMismatch(p, result) == Truthy(p.desired_val) /\ result # p.desired_val

\* MonitorDNS.run_test
MonitorDNSRunTest(p, io) ==
    IF io.raises THEN
        [calls |-> <<Fail(<<"Exception while executing ">> \o p.command \o <<": ">> \o io.exc)>>,
         ret |-> "False", argv |-> p.params]
    ELSE
    LET result == Strip(io.output) IN
    IF result = EmptyStr THEN
        [calls |-> <<Fail(<<"failed to resolve ">> \o p.path)>>,
         ret |-> "False", argv |-> p.params]
    ELSE IF DesiredMismatch(p, result) THEN
        [calls |-> <<Fail(<<"resolved DNS record is unexpected: ">> \o p.desired_val
                          \o <<" != ">> \o result)>>,
         ret |-> "False", argv |-> p.params]
    ELSE [calls |-> <<Success(None)>>, ret |-> "True", argv |-> p.params]

MonitorDNSDescribe(p) ==
    LET end_part == IF Truthy(p.desired_val) THEN <<"resolves to ">> \o p.desired_val
                    ELSE <<"is resolvable">>
        mid_part == IF Truthy(p.rectype) THEN p.rectype \o <<" record ">> \o p.path
                    ELSE <<"record ">> \o p.path
        very_end_part == IF Truthy(p.server) THEN <<" at ">> \o p.server ELSE EmptyStr
    IN  <<"Checking that DNS ">> \o mid_part \o <<" ">> \o end_part \o very_end_part

MonitorDNSGetParams(p) == <<p.path>>

----------------------------------------------------------------------------
(* MonitorTCP *)

\* MonitorTCP.__init__: the probe built, or the message of the error raised
MonitorTCPInit(cfg) ==
    IF ~Has(cfg, "host") \/ ~IntValid(cfg.port) THEN [probe |-> NoProbe, err |-> MsgRequired]
    ELSE IF cfg.host = EmptyStr THEN [probe |-> NoProbe, err |-> MsgMissingHost]
    ELSE IF IntOf(cfg.port) <= 0 THEN [probe |-> NoProbe, err |-> MsgBadPort]
    ELSE [probe |-> [type |-> "tcp", host |-> cfg.host, port |-> IntOf(cfg.port)],
          err |-> None]

\* MonitorTCP.run_test; io.step is how far the socket calls get:
\* socket.socket() raises, settimeout/connect raises, or the connection is made
MonitorTCPRunTest(p, io) ==
    IF io.step = "socket_error" THEN [calls |-> <<>>, ret |-> "raised"]
    ELSE IF io.step = "connect_error" THEN [calls |-> <<Fail(None)>>, ret |-> "False"]
    ELSE [calls |-> <<Success(None)>>, ret |-> "True"]

MonitorTCPDescribe(p) ==
    <<"checking for open tcp socket on ">> \o p.host \o <<":">> \o IntToStr(p.port)

MonitorTCPGetParams(p) == <<p.host, IntToStr(p.port)>>

----------------------------------------------------------------------------
(* MonitorHTTP *)

MsgValueError == <<"ValueError">>

\* str.lower() on the words the model spells in upper case
LowerChunk(c) == IF c \in {"False", "FALSE"} THEN "false" ELSE c

Lower(s) == [i \in 1..Len(s) |-> LowerChunk(s[i])]

\* the fields of "a,b,c".split(",") all parse as int
CodesValid(s) ==
    LET parts == Split(s, ",") IN \A i \in 1..Len(parts) : IntValid(parts[i])

\* [int(x.strip()) for x in s.split(",")]
ParseCodes(s) ==
    LET parts == Split(s, ",") IN [i \in 1..Len(parts) |-> IntOf(parts[i])]

\* str(list of int)
ListStr(l) ==
    <<"[">> \o Join([i \in 1..Len(l) |-> IntToStr(l[i])], <<",", " ">>) \o <<"]">>

\* MonitorHTTP.__init__: the probe built, or the message of the error raised
MonitorHTTPInit(cfg) ==
    IF ~Has(cfg, "url") THEN [probe |-> NoProbe, err |-> MsgRequired]
    ELSE IF Has(cfg, "allowed_codes") /\ ~CodesValid(cfg.allowed_codes)
        THEN [probe |-> NoProbe, err |-> MsgValueError]
    ELSE IF Has(cfg, "timeout") /\ ~IntValid(cfg.timeout)
        THEN [probe |-> NoProbe, err |-> MsgValueError]
    ELSE
    LET regexp == IF Has(cfg, "regexp") THEN cfg.regexp ELSE EmptyStr
        allowed_codes == IF Has(cfg, "allowed_codes") THEN ParseCodes(cfg.allowed_codes)
                         ELSE <<200>>
        certfile == IF Has(cfg, "certfile") THEN cfg.certfile ELSE None
        keyfile == IF Has(cfg, "certfile")
                     THEN IF Has(cfg, "keyfile") THEN cfg.keyfile ELSE cfg.certfile
                     ELSE None
        verify_hostname == ~(Has(cfg, "verify_hostname")
                             /\ Lower(cfg.verify_hostname) = <<"false">>)
    IN  [probe |-> [type |-> "http", url |-> cfg.url,
                    regexp |-> IF regexp # EmptyStr THEN regexp ELSE None,
                    regexp_text |-> regexp,
                    allowed_codes |-> allowed_codes,
                    certfile |-> certfile, keyfile |-> keyfile,
                    verify_hostname |-> verify_hostname,
                    request_timeout |-> IF Has(cfg, "timeout") THEN IntOf(cfg.timeout) ELSE 5,
                    username |-> Get(cfg, "username"),
                    password |-> Get(cfg, "password")],
         err |-> None]

NoAuth == <<>>

\* a mutation of HTTPRequest: basic auth is tried before the client certificate
HTTPRequestBasicFirst(p) ==
    IF p.username # None THEN
        [url |-> p.url, timeout |-> p.request_timeout, verify |-> p.verify_hostname,
         auth |-> <<p.username, p.password>>, cert |-> NoAuth]
    ELSE IF p.certfile = None THEN
        [url |-> p.url, timeout |-> p.request_timeout, verify |-> p.verify_hostname,
         auth |-> NoAuth, cert |-> NoAuth]
    ELSE
        [url |-> p.url, timeout |-> p.request_timeout, verify |-> p.verify_hostname,
         auth |-> NoAuth, cert |-> <<p.certfile, p.keyfile>>]

\* the requests.get call of MonitorHTTP.run_test
HTTPRequest(p) ==
    IF p.certfile = None /\ p.username = None THEN
        [url |-> p.url, timeout |-> p.request_timeout, verify |-> p.verify_hostname,
         auth |-> NoAuth, cert |-> NoAuth]
    ELSE IF p.certfile = None /\ p.username # None THEN
        [url |-> p.url, timeout |-> p.request_timeout, verify |-> p.verify_hostname,
         auth |-> <<p.username, p.password>>, cert |-> NoAuth]
    ELSE
        [url |-> p.url, timeout |-> p.request_timeout, verify |-> p.verify_hostname,
         auth |-> NoAuth, cert |-> <<p.certfile, p.keyfile>>]

\* "%0.2f" % (load_time.seconds + load_time.microseconds / 1000000.2)
FormatSeconds(load_time) ==
    LET frac == (load_time.microseconds * 1000 + 5000001) \div 10000002
        total == load_time.seconds * 100 + frac
        cents == total % 100
    IN  IntToStr(total \div 100) \o <<".">>
        \o (IF cents < 10 THEN <<"0">> ELSE EmptyStr) \o IntToStr(cents)

\* a mutation of CodeAllowed: the allow-list is ignored and only 200 passes
CodeAllowedOnly200(p, status_code) == status_code = 200

\* r.status_code in self.allowed_codes
CodeAllowed(p, status_code) ==
    \E i \in 1..Len(p.allowed_codes) : p.allowed_codes[i] = status_code

\* MonitorHTTP.run_test; searched tells whether self.regexp.search ran
MonitorHTTPRunTest(p, io) ==
    LET req == HTTPRequest(p) IN
    IF io.kind = "RequestException" THEN
        [calls |-> <<Fail(<<"Requests exception while opening URL: ">> \o io.exc)>>,
         ret |-> "False", request |-> req, searched |-> FALSE]
    ELSE IF io.kind = "Exception" THEN
        [calls |-> <<Fail(<<"Exception while trying to open url: ">> \o io.exc)>>,
         ret |-> "False", request |-> req, searched |-> FALSE]
    ELSE IF ~CodeAllowed(p, io.status_code) THEN
        [calls |-> <<Fail(<<"Got status '">> \o IntToStr(io.status_code) \o <<" ">> \o io.reason
                          \o <<"' instead of ">> \o ListStr(p.allowed_codes))>>,
         ret |-> "False", request |-> req, searched |-> FALSE]
    ELSE IF p.regexp = None THEN
        [calls |-> <<Success(IntToStr(io.status_code) \o <<" in ">>
                             \o FormatSeconds(io.load_time) \o <<"s">>)>>,
         ret |-> "True", request |-> req, searched |-> FALSE]
    ELSE IF Search(p.regexp, io.text) THEN
        [calls |-> <<Success(IntToStr(io.status_code) \o <<" in ">>
                             \o FormatSeconds(io.load_time) \o <<"s">>)>>,
         ret |-> "True", request |-> req, searched |-> TRUE]
    ELSE
        [calls |-> <<Fail(<<"Got '">> \o IntToStr(io.status_code) \o <<" ">> \o io.reason
                          \o <<"' but couldn't match /">> \o p.regexp_text \o <<"/ in page.">>)>>,
         ret |-> "False", request |-> req, searched |-> TRUE]

MonitorHTTPDescribe(p) ==
    IF p.regexp = None
        THEN <<"Checking that accessing ">> \o p.url \o <<" returns HTTP/200 OK">>
        ELSE <<"Checking that accessing ">> \o p.url
             \o <<" returns HTTP/200 OK and that /">> \o p.regexp_text \o <<"/ matches the page">>

MonitorHTTPGetParams(p) == <<p.url, p.regexp_text, ListStr(p.allowed_codes)>>

----------------------------------------------------------------------------
(* Inputs: configurations, platforms and the outcomes of the external I/O *)

SeqsUpTo(S, n) == UNION {[1..k -> S] : k \in 0..n}

\* flatten a sequence of strings
RECURSIVE Concat(_)
Concat(ss) == IF ss = <<>> THEN <<>> ELSE Head(ss) \o Concat(Tail(ss))

Unobserved == <<"<unobserved>">>

PyVersions == {2, 3}

Platforms ==
    {<<"win32">>, <<"cygwin">>, <<"freebsd", "11">>, <<"darwin">>,
     <<"linux">>, <<"linux", "2">>, <<"sunos", "5">>}

HTTPConfigs ==
    [type : {"http"},
     url : {Absent, EmptyStr, <<"http://a">>},
     regexp : {Absent, EmptyStr, <<"OK">>},
     allowed_codes : {Absent, <<"2", "0", "0">>,
                      <<"2", "0", "0", ",", " ", "4", "0", "4">>, <<"a">>},
     certfile : {Absent, EmptyStr, <<"c.pem">>},
     keyfile : {Absent, <<"k.pem">>},
     verify_hostname : {Absent, <<"False">>, <<"true">>},
     timeout : {Absent, <<"1", "0">>, <<"x">>},
     username : {Absent, EmptyStr, <<"u">>},
     password : {Absent, <<"p">>}]

TCPConfigs ==
    [type : {"tcp"},
     host : {Absent, EmptyStr, <<"h">>},
     port : {Absent, EmptyStr, <<"8", "0">>, <<"0">>, <<"-", "1">>, <<"x">>}]

HostConfigs ==
    [type : {"host"},
     host : {Absent, EmptyStr, <<"h">>},
     ping_ttl : {Absent, <<"5">>, <<"1", "0">>}]

DNSConfigs ==
    [type : {"dns"},
     record : {Absent, EmptyStr, <<"example.com">>},
     desired_val : {Absent, EmptyStr, <<"1.1.1.1">>},
     server : {Absent, EmptyStr, <<"8.8.8.8">>},
     record_type : {Absent, EmptyStr, <<"A">>}]

HTTPOutcomes ==
    [kind : {"response"},
     status_code : {200, 404},
     reason : {<<"reason">>},
     text : {<<"<h1>", "OK", "</h1>">>, <<"error">>},
     load_time : {[seconds |-> 0, microseconds |-> 120000],
                  [seconds |-> 5, microseconds |-> 999999]},
     exc : {EmptyStr}]
    \cup
    [kind : {"RequestException", "Exception"},
     status_code : {0},
     reason : {EmptyStr},
     text : {EmptyStr},
     load_time : {[seconds |-> 0, microseconds |-> 0]},
     exc : {<<"timed out">>}]

TCPOutcomes == [step : {"socket_error", "connect_error", "connected"}]

\* lines a ping prints
PingLines ==
    {<<"PING h">>,
     <<"64 ", "bytes from", " h">>,
     <<"Reply from ", "h">>,
     <<"round-trip ", "min/avg/max/stddev = ", "0.4", "/", "0.5", "/", "0.6">>,
     <<"rtt ", "min/avg/max/mdev = ", "0.4", "/", "0.5", "/", "0.6">>,
     <<"Minimum = 11ms, ", "Average = ", "12", "ms">>,
     <<"bytes from", " ", "min/avg/max/stddev = ", "0.4", "/", "0.6", "/">>}

\* each line ends in a newline
PingOutput(lines) == Concat([i \in 1..Len(lines) |-> lines[i] \o <<"\n">>])

HostOutcomes ==
    [raises : {FALSE}, exc : {EmptyStr},
     output : {PingOutput(ls) : ls \in SeqsUpTo(PingLines, MaxLines)}]
    \cup
    [raises : {TRUE}, exc : {<<"CalledProcessError">>}, output : {EmptyStr}]

DNSOutcomes ==
    [raises : {FALSE}, exc : {EmptyStr},
     output : SeqsUpTo({"1.1.1.1", "2.2.2.2", " ", "\n"}, MaxOut)]
    \cup
    [raises : {TRUE}, exc : {<<"CalledProcessError">>}, output : {EmptyStr}]

----------------------------------------------------------------------------
(* The state machine: one probe is constructed, then run, described and     *)
(* identified any number of times, one call after the other.                *)
(*   pyver, platform  the interpreter and sys.platform, as MonitorHost      *)
(*                    observes them (no other monitor depends on them)      *)
(*   config           the config_options given to the constructor           *)
(*   probe            the monitor instance, NoProbe when there is none      *)
(*   err              the message of the error the constructor raised       *)
(*   last             the last operation, its I/O outcome and its result    *)

NoConfig == [type |-> "none"]

Init ==
    /\ pyver = 0
    /\ platform = Unobserved
    /\ config = NoConfig
    /\ probe = NoProbe
    /\ err = None
    /\ last = [op |-> "none"]

Fresh == config = NoConfig

\* no call on the probe is in progress
Callable == last.op \in {"__init__", "idle"}

ConstructHTTP ==
    /\ Fresh
    /\ \E cfg \in HTTPConfigs :
         LET r == MonitorHTTPInit(cfg) IN
         /\ config' = cfg
         /\ probe' = r.probe
         /\ err' = r.err
    /\ last' = [op |-> "__init__"]
    /\ UNCHANGED <<pyver, platform>>

ConstructTCP ==
    /\ Fresh
    /\ \E cfg \in TCPConfigs :
         LET r == MonitorTCPInit(cfg) IN
         /\ config' = cfg
         /\ probe' = r.probe
         /\ err' = r.err
    /\ last' = [op |-> "__init__"]
    /\ UNCHANGED <<pyver, platform>>

ConstructHost ==
    /\ Fresh
    /\ \E cfg \in HostConfigs, plat \in Platforms, py \in PyVersions :
         LET r == MonitorHostInit(cfg, plat) IN
         /\ config' = cfg
         /\ platform' = plat
         /\ pyver' = py
         /\ probe' = r.probe
         /\ err' = r.err
    /\ last' = [op |-> "__init__"]

ConstructDNS ==
    /\ Fresh
    /\ \E cfg \in DNSConfigs :
         LET r == MonitorDNSInit(cfg) IN
         /\ config' = cfg
         /\ probe' = r.probe
         /\ err' = r.err
    /\ last' = [op |-> "__init__"]
    /\ UNCHANGED <<pyver, platform>>

RunHTTP ==
    /\ Callable
    /\ probe.type = "http"
    /\ \E io \in HTTPOutcomes :
         last' = [op |-> "run_test", io |-> io, res |-> MonitorHTTPRunTest(probe, io)]
    /\ UNCHANGED <<pyver, platform, config, probe, err>>

RunTCP ==
    /\ Callable
    /\ probe.type = "tcp"
    /\ \E io \in TCPOutcomes :
         last' = [op |-> "run_test", io |-> io, res |-> MonitorTCPRunTest(probe, io)]
    /\ UNCHANGED <<pyver, platform, config, probe, err>>

\* a mutation of RunHost: run_test keeps the host it pinged, with the measured
\* time, on the instance
RunHostKeepsResult ==
    /\ Callable
    /\ probe.type = "host"
    /\ \E io \in HostOutcomes :
         LET res == MonitorHostRunTest(probe, pyver, io) IN
         /\ last' = [op |-> "run_test", io |-> io, res |-> res]
         /\ probe' = IF res.ret = "True" THEN [probe EXCEPT !.host = @ \o <<" up">>] ELSE probe
    /\ UNCHANGED <<pyver, platform, config, err>>

RunHost ==
    /\ Callable
    /\ probe.type = "host"
    /\ \E io \in HostOutcomes :
         last' = [op |-> "run_test", io |-> io, res |-> MonitorHostRunTest(probe, pyver, io)]
    /\ UNCHANGED <<pyver, platform, config, probe, err>>

RunDNS ==
    /\ Callable
    /\ probe.type = "dns"
    /\ \E io \in DNSOutcomes :
         last' = [op |-> "run_test", io |-> io, res |-> MonitorDNSRunTest(probe, io)]
    /\ UNCHANGED <<pyver, platform, config, probe, err>>

DescribeOf(p) ==
    CASE p.type = "http" -> MonitorHTTPDescribe(p)
      [] p.type = "tcp" -> MonitorTCPDescribe(p)
      [] p.type = "host" -> MonitorHostDescribe(p)
      [] p.type = "dns" -> MonitorDNSDescribe(p)

GetParamsOf(p) ==
    CASE p.type = "http" -> MonitorHTTPGetParams(p)
      [] p.type = "tcp" -> MonitorTCPGetParams(p)
      [] p.type = "host" -> MonitorHostGetParams(p)
      [] p.type = "dns" -> MonitorDNSGetParams(p)

Describe ==
    /\ Callable
    /\ probe.type # "none"
    /\ last' = [op |-> "describe", value |-> DescribeOf(probe)]
    /\ UNCHANGED <<pyver, platform, config, probe, err>>

GetParams ==
    /\ Callable
    /\ probe.type # "none"
    /\ last' = [op |-> "get_params", value |-> GetParamsOf(probe)]
    /\ UNCHANGED <<pyver, platform, config, probe, err>>

\* the caller has taken the result of the call and the probe waits for the next one
Idle ==
    /\ last.op \in {"run_test", "describe", "get_params"}
    /\ last' = [op |-> "idle"]
    /\ UNCHANGED <<pyver, platform, config, probe, err>>

Next ==
    \/ ConstructHTTP
    \/ ConstructTCP
    \/ ConstructHost
    \/ ConstructDNS
    \/ RunHTTP
    \/ RunTCP
    \/ RunHost
    \/ RunDNS
    \/ Describe
    \/ GetParams
    \/ Idle

Spec == Init /\ [][Next]_vars

----------------------------------------------------------------------------
(* Properties *)

Ran(t) == last.op = "run_test" /\ probe.type = t

\* C1: every run_test, whatever the external I/O does, returns without an
\* exception escaping and has called exactly one of record_success /
\* record_fail, exactly once.
C1_RunRecordsExactlyOnce ==
    last.op = "run_test" =>
        /\ last.res.ret \in {"True", "False"}
        /\ Len(last.res.calls) = 1
        /\ last.res.calls[1].fn \in {"record_success", "record_fail"}

\* the part of C1 that the code keeps: the HTTP, Host and DNS probes, and the
\* TCP probe once its socket exists
RunRecordsExactlyOnceIfSocket ==
    (last.op = "run_test" /\ ~(probe.type = "tcp" /\ last.io.step = "socket_error")) =>
        /\ last.res.ret \in {"True", "False"}
        /\ Len(last.res.calls) = 1

\* the required keys of each probe type
RequiredKeys(t) ==
    CASE t = "http" -> {"url"}
      [] t = "tcp" -> {"host", "port"}
      [] t = "host" -> {"host"}
      [] t = "dns" -> {"record"}

RequiredMissing(cfg) == \E k \in RequiredKeys(cfg.type) : cfg[k] \in {Absent, EmptyStr}

\* the optional keys that are numbers parse as numbers
OptionalKeysParse(cfg) ==
    cfg.type = "http" =>
        /\ cfg.allowed_codes \in {Absent, <<"2", "0", "0">>,
                                  <<"2", "0", "0", ",", " ", "4", "0", "4">>}
        /\ cfg.timeout \in {Absent, <<"1", "0">>}

\* C2: constructing any probe with a required key absent or present-but-empty
\* fails with "Required configuration fields missing" and produces no probe,
\* identically for the four probe types.
C2_RequiredKeysEnforced ==
    (config # NoConfig /\ RequiredMissing(config) /\ OptionalKeysParse(config)) =>
        /\ probe.type = "none"
        /\ err = MsgRequired

Recognized(plat) == IsWindows(plat) \/ IsBSD(plat) \/ IsLinux(plat)

\* C3: constructing a Host probe on a platform that is none of win32/cygwin,
\* freebsd*, darwin*, linux* fails, so no Host probe exists with an empty
\* ping command or an empty reply/time regex.
C3_UnknownPlatformRejected ==
    /\ (config.type = "host" /\ ~Recognized(platform)) =>
            (probe.type = "none" /\ err # None)
    /\ probe.type = "host" =>
            /\ probe.ping_command # EmptyStr
            /\ probe.ping_regexp # EmptyStr
            /\ probe.time_regexp # EmptyStr

\* the allow-list a configuration asks for
ConfiguredCodes(cfg) ==
    IF cfg.allowed_codes = Absent THEN {200}
    ELSE IF cfg.allowed_codes = <<"2", "0", "0">> THEN {200}
    ELSE {200, 404}

RegexpConfigured(cfg) == cfg.regexp \notin {Absent, EmptyStr}

\* C4: an HTTP run that received a response fails if the status code is not in
\* allowed_codes (default [200]), with a message containing the status code and
\* without consulting the regexp; otherwise it succeeds if no regexp is
\* configured; otherwise it succeeds iff the regexp is found in the body, and
\* fails with a message naming the pattern when it is not.
C4_HTTPVerdict ==
    (Ran("http") /\ last.io.kind = "response") =>
        LET res == last.res
            call == res.calls[1]
            code == last.io.status_code
            found == Contains(last.io.text, config.regexp)
        IN  /\ Len(res.calls) = 1
            /\ IF code \notin ConfiguredCodes(config) THEN
                    /\ call.fn = "record_fail"
                    /\ res.ret = "False"
                    /\ Contains(call.msg, IntToStr(code))
                    /\ ~res.searched
               ELSE IF ~RegexpConfigured(config) THEN
                    /\ call.fn = "record_success"
                    /\ res.ret = "True"
               ELSE /\ (call.fn = "record_success") <=> found
                    /\ (res.ret = "True") <=> found
                    /\ ~found => (call.fn = "record_fail" /\ Contains(call.msg, config.regexp))

C4_Witness ==
    /\ Ran("http")
    /\ last.io.kind = "response"
    /\ last.io.status_code = 404
    /\ 404 \in ConfiguredCodes(config)
    /\ RegexpConfigured(config)
    /\ last.res.calls[1].fn = "record_fail"
    /\ last.res.searched

\* C5: the GET of an HTTP run uses client-certificate auth (cert, key) and no
\* basic auth whenever a certfile is configured, basic auth iff no certfile is
\* configured and a username is, and neither otherwise; it always carries the
\* configured timeout and verify_hostname, and with a certfile the key path is
\* set: keyfile if given, else certfile.
C5_HTTPAuthPrecedence ==
    Ran("http") =>
        LET req == last.res.request
            key == IF config.keyfile # Absent THEN config.keyfile ELSE config.certfile
        IN  /\ req.url = config.url
            /\ req.timeout = probe.request_timeout
            /\ req.timeout = (IF config.timeout = Absent THEN 5 ELSE 10)
            /\ req.verify = probe.verify_hostname
            /\ req.verify = (config.verify_hostname # <<"False">>)
            /\ IF config.certfile # Absent THEN
                    /\ req.cert = <<config.certfile, key>>
                    /\ req.cert[2] \notin {None, Absent}
                    /\ req.auth = NoAuth
               ELSE IF config.username # Absent THEN
                    /\ req.auth = <<config.username, Get(config, "password")>>
                    /\ req.cert = NoAuth
               ELSE /\ req.auth = NoAuth
                    /\ req.cert = NoAuth

C5_Witness ==
    /\ Ran("http")
    /\ config.certfile = <<"c.pem">>
    /\ config.keyfile = Absent
    /\ config.username = <<"u">>
    /\ last.res.request.cert = <<(<<"c.pem">>), (<<"c.pem">>)>>
    /\ last.res.request.auth = NoAuth

\* the stripped output of the dig that the last DNS run executed
DigResult == Strip(last.io.output)

DNSReturned == Ran("dns") /\ ~last.io.raises

\* C6, as claimed: a DNS run whose dig returned r fails if r is empty, naming
\* the record; fails if desired_val is set and r differs from it, naming both;
\* and succeeds with no message otherwise; for every configured desired_val,
\* the empty string included.
C6_DNSVerdictAsClaimed ==
    DNSReturned =>
        LET r == DigResult
            call == last.res.calls[1]
        IN  IF r = EmptyStr THEN
                /\ call.fn = "record_fail"
                /\ Contains(call.msg, config.record)
            ELSE IF config.desired_val # Absent /\ r # config.desired_val THEN
                /\ call.fn = "record_fail"
                /\ Contains(call.msg, config.desired_val)
                /\ Contains(call.msg, r)
            ELSE call = Success(None)

\* C6, amended: the comparison with desired_val is made only when desired_val
\* is set and not empty; an empty desired_val is as good as none.
C6_DNSVerdict ==
    DNSReturned =>
        LET r == DigResult
            call == last.res.calls[1]
        IN  /\ Len(last.res.calls) = 1
            /\ IF r = EmptyStr THEN
                    /\ call.fn = "record_fail"
                    /\ last.res.ret = "False"
                    /\ Contains(call.msg, config.record)
               ELSE IF config.desired_val \notin {Absent, EmptyStr} /\ r # config.desired_val THEN
                    /\ call.fn = "record_fail"
                    /\ last.res.ret = "False"
                    /\ Contains(call.msg, config.desired_val)
                    /\ Contains(call.msg, r)
               ELSE /\ call = Success(None)
                    /\ last.res.ret = "True"

C6_Witness ==
    /\ DNSReturned
    /\ config.desired_val = EmptyStr
    /\ DigResult = <<"2.2.2.2">>
    /\ last.res.calls = <<Success(None)>>

\* the lines of the output of the ping that the last Host run executed
PingedLines == Split(last.io.output, "\n")

ReplyLine(l) == Search(probe.ping_regexp, l)

\* a timing-summary line that is not a reply line
TimeLine(l) == Search(probe.time_regexp, l) /\ ~ReplyLine(l)

PingReturned == Ran("host") /\ Recognized(platform) /\ ~last.io.raises

\* C7: a Host run whose ping returned normally records success iff some
\* output line matches the reply regex, and a bare failure otherwise; and when
\* it succeeds and a line other than the reply lines matches the time regex,
\* the success message contains a captured round-trip value, "<ms>ms".
C7_PingVerdict ==
    PingReturned =>
        LET ls == PingedLines
            replied == \E i \in 1..Len(ls) : ReplyLine(ls[i])
        IN  /\ Len(last.res.calls) = 1
            /\ (last.res.calls[1].fn = "record_success") <=> replied
            /\ ~replied => last.res.calls = <<Fail(None)>>
            /\ (replied /\ \E j \in 1..Len(ls) : TimeLine(ls[j])) =>
                    \E j \in 1..Len(ls) :
                        /\ TimeLine(ls[j])
                        /\ Contains(last.res.calls[1].msg,
                                    GroupMs(probe.time_regexp, ls[j]) \o <<"ms">>)

\* C7 on Python 2 alone, where str(output) is the output
C7_PingVerdictPy2 == pyver = 2 => C7_PingVerdict

\* C8: no run_test, describe or get_params changes a field of the probe, so
\* describe() and get_params() return the same before and after any run.
C8_ProbeImmutable ==
    [][probe.type # "none" =>
            /\ probe' = probe
            /\ DescribeOf(probe') = DescribeOf(probe)
            /\ GetParamsOf(probe') = GetParamsOf(probe)]_vars

C8_Witness ==
    /\ Ran("host")
    /\ last.res.ret = "True"
    /\ probe.host = config.host
    /\ DescribeOf(probe) = <<"checking host ", "h", " is pingable">>

\* the ping_ttl a configuration asks for
ConfiguredTTL(cfg) == IF cfg.ping_ttl = Absent THEN <<"5">> ELSE cfg.ping_ttl

\* the argv of a Host probe's ping
PingArgv == Split(Format(probe.ping_command, probe.host), " ")

Adjacent(argv, a, b) == \E i \in 1..(Len(argv) - 1) : argv[i] = a /\ argv[i + 1] = b

\* C9: on every recognized platform the ping command waits ping_ttl seconds:
\* on win32/cygwin -w is followed by the numeral of ping_ttl * 1000, on
\* freebsd/darwin the command has -t<ping_ttl>, on linux -W<ping_ttl>; it
\* sends one probe and ends with the host.
C9_PingCommandDeadline ==
    (probe.type = "host" /\ Recognized(platform)) =>
        LET t == ConfiguredTTL(config)
            argv == PingArgv
        IN  /\ FormatOk(probe.ping_command)
            /\ argv[Len(argv)] = config.host
            /\ IsWindows(platform) =>
                    /\ Adjacent(argv, <<"-n">>, <<"1">>)
                    /\ Adjacent(argv, <<"-w">>, IntToStr(IntOf(t) * 1000))
            /\ IsBSD(platform) =>
                    /\ \E i \in 1..Len(argv) : argv[i] = <<"-c1">>
                    /\ \E i \in 1..Len(argv) : argv[i] = <<"-t">> \o t
            /\ IsLinux(platform) =>
                    /\ \E i \in 1..Len(argv) : argv[i] = <<"-c1">>
                    /\ \E i \in 1..Len(argv) : argv[i] = <<"-W">> \o t

\* C9 without Windows
C9_PosixOnly == IsWindows(platform) \/ C9_PingCommandDeadline

\* an optional key counts as configured when it is present and not empty
Configured(cfg, k) == cfg[k] \notin {Absent, EmptyStr}

\* the argv the claim describes
ClaimedDigArgv(cfg) ==
    <<(<<"dig">>)>>
    \o (IF Configured(cfg, "server") THEN <<(<<"@">> \o cfg.server)>> ELSE <<>>)
    \o (IF Configured(cfg, "record_type") THEN <<(<<"-t">>), cfg.record_type>> ELSE <<>>)
    \o <<cfg.record, (<<"+short">>)>>

\* C10: the argv of a DNS probe is dig, then @<server> iff a server is
\* configured, then -t <record_type> iff a record type is configured, then
\* the record, then +short; it is built at construction and every run
\* executes that list.
C10_DigArgv ==
    probe.type = "dns" =>
        /\ probe.params = ClaimedDigArgv(config)
        /\ last.op = "run_test" => last.res.argv = probe.params

\* C10 with "configured" read as "the key is present", for both keys
C10_DigArgvKeyPresent ==
    probe.type = "dns" =>
        probe.params =
            <<(<<"dig">>)>>
            \o (IF Has(config, "server") THEN <<(<<"@">> \o config.server)>> ELSE <<>>)
            \o (IF Has(config, "record_type") THEN <<(<<"-t">>), config.record_type>> ELSE <<>>)
            \o <<config.record, (<<"+short">>)>>

====
